---- MODULE Spec2Model ----
(***************************************************************************)
(* Model of src/pipedream_webhook.js: the Pipedream component "Competitive *)
(* Intel Slack Notifier".  One invocation of run() is modelled: it reads   *)
(* the HTTP trigger's body, validates it, formats the Slack message, posts *)
(* it, and on any error posts an error notice and answers 500.             *)
(*                                                                         *)
(* JavaScript strings are modelled as sequences of UTF-16 code units       *)
(* (naturals), so that .length, substring and concatenation are computed   *)
(* as the engine computes them.  JavaScript values are tagged records.     *)
(***************************************************************************)
EXTENDS Integers, Sequences, FiniteSets, TLC

VARIABLES pc, props, locale, requestBody, now, startTime, slackMessage,
          formattedMessage, calls, slackResponse, error, slackError,
          response, result

vars == <<pc, props, locale, requestBody, now, startTime, slackMessage,
          formattedMessage, calls, slackResponse, error, slackError,
          response, result>>

-----------------------------------------------------------------------------
(* String literals of the source, as UTF-16 code units.                    *)

\* "\n\n...(truncated - see full report in tool)"  (line 60)
TruncationNotice ==
    <<10, 10, 46, 46, 46, 40, 116, 114, 117, 110, 99, 97, 116, 101, 100, 32, 45, 32, 115, 101,
      101, 32, 102, 117, 108, 108, 32, 114, 101, 112, 111, 114, 116, 32, 105, 110, 32, 116,
      111, 111, 108, 41>>

\* "\n\n---\n<U+1F4CA> **Report Generated**: "  (lines 64-67)
FooterGenerated ==
    <<10, 10, 45, 45, 45, 10, 55357, 56522, 32, 42, 42, 82, 101, 112, 111, 114, 116, 32, 71,
      101, 110, 101, 114, 97, 116, 101, 100, 42, 42, 58, 32>>

\* "\n<U+1F527> **Source**: "  (line 68)
FooterSource ==
    <<10, 55357, 56615, 32, 42, 42, 83, 111, 117, 114, 99, 101, 42, 42, 58, 32>>

\* "\n<U+26A1> **Processing Time**: "  (line 69)
FooterProcessing ==
    <<10, 9889, 32, 42, 42, 80, 114, 111, 99, 101, 115, 115, 105, 110, 103, 32, 84, 105, 109,
      101, 42, 42, 58, 32>>

\* "ms"  (line 69)
MsSuffix ==
    <<109, 115>>

\* 'Unknown time'  (line 67)
UnknownTime ==
    <<85, 110, 107, 110, 111, 119, 110, 32, 116, 105, 109, 101>>

\* 'Competitive Intel Tool'  (line 68)
DefaultSource ==
    <<67, 111, 109, 112, 101, 116, 105, 116, 105, 118, 101, 32, 73, 110, 116, 101, 108, 32, 84,
      111, 111, 108>>

\* "Slack error: "  (line 93)
SlackErrorPrefix ==
    <<83, 108, 97, 99, 107, 32, 101, 114, 114, 111, 114, 58, 32>>

\* "undefined": what a template literal prints for the value undefined
UndefinedText ==
    <<117, 110, 100, 101, 102, 105, 110, 101, 100>>

\* "No report data provided"  (line 51)
NoReportError ==
    <<78, 111, 32, 114, 101, 112, 111, 114, 116, 32, 100, 97, 116, 97, 32, 112, 114, 111, 118,
      105, 100, 101, 100>>

\* "<U+1F6A8> **Competitive Intel Webhook Error**\n\n**Error**: "  (line 121)
NoticeHead ==
    <<55357, 57000, 32, 42, 42, 67, 111, 109, 112, 101, 116, 105, 116, 105, 118, 101, 32, 73,
      110, 116, 101, 108, 32, 87, 101, 98, 104, 111, 111, 107, 32, 69, 114, 114, 111, 114, 42,
      42, 10, 10, 42, 42, 69, 114, 114, 111, 114, 42, 42, 58, 32>>

\* "\n**Time**: "  (line 121)
NoticeTime ==
    <<10, 42, 42, 84, 105, 109, 101, 42, 42, 58, 32>>

\* message of the TypeError raised by line 45 when requestBody is undefined (V8 wording)
DestructureMessage ==
    <<67, 97, 110, 110, 111, 116, 32, 100, 101, 115, 116, 114, 117, 99, 116, 117, 114, 101, 32,
      112, 114, 111, 112, 101, 114, 116, 121, 32, 39, 114, 101, 112, 111, 114, 116, 39, 32,
      111, 102, 32, 39, 114, 101, 113, 117, 101, 115, 116, 66, 111, 100, 121, 39, 32, 97, 115,
      32, 105, 116, 32, 105, 115, 32, 117, 110, 100, 101, 102, 105, 110, 101, 100, 46>>

\* message of the TypeError raised by line 91 when slackResponse is undefined (V8 wording)
ReadOkMessage ==
    <<67, 97, 110, 110, 111, 116, 32, 114, 101, 97, 100, 32, 112, 114, 111, 112, 101, 114, 116,
      105, 101, 115, 32, 111, 102, 32, 117, 110, 100, 101, 102, 105, 110, 101, 100, 32, 40,
      114, 101, 97, 100, 105, 110, 103, 32, 39, 111, 107, 39, 41>>

\* "#general", the default of the slack_channel prop (line 26)
GeneralChannel ==
    <<35, 103, 101, 110, 101, 114, 97, 108>>

\* "#competitive-intel", the example of the slack_channel prop (line 25)
IntelChannel ==
    <<35, 99, 111, 109, 112, 101, 116, 105, 116, 105, 118, 101, 45, 105, 110, 116, 101, 108>>

\* "scanner", a source label
ScannerSource ==
    <<115, 99, 97, 110, 110, 101, 114>>

\* "invalid_auth", a provider error code
InvalidAuth ==
    <<105, 110, 118, 97, 108, 105, 100, 95, 97, 117, 116, 104>>

\* "timeout", the message of a transport error
NetworkMessage ==
    <<116, 105, 109, 101, 111, 117, 116>>

\* "1700000000.000100", a provider message identifier
ProviderTs ==
    <<49, 55, 48, 48, 48, 48, 48, 48, 48, 48, 46, 48, 48, 48, 49, 48, 48>>

\* "1/1/1970, ", the en-US date of the first day of the epoch
DatePrefix ==
    <<49, 47, 49, 47, 49, 57, 55, 48, 44, 32>>

\* "1970-01-01T", the ISO date of the first day of the epoch
IsoDatePrefix ==
    <<49, 57, 55, 48, 45, 48, 49, 45, 48, 49, 84>>
-----------------------------------------------------------------------------
(* JavaScript values.                                                      *)

Undefined == [tag |-> "undefined"]

Str(s) == [tag |-> "string", val |-> s]

Num(n) == [tag |-> "number", val |-> n]

Bool(b) == [tag |-> "boolean", val |-> b]

\* Variant of Truthy: a presence test (v !== undefined) in place of ToBoolean.
TruthyPresenceOnly(v) == v.tag # "undefined"

\* ToBoolean: undefined, "", 0 and false are falsy.
Truthy(v) ==
    CASE v.tag = "undefined" -> FALSE
      [] v.tag = "string"    -> Len(v.val) > 0
      [] v.tag = "number"    -> v.val # 0
      [] v.tag = "boolean"   -> v.val
      [] OTHER               -> TRUE

-----------------------------------------------------------------------------
(* String operations.                                                      *)

Min(a, b) == IF a < b THEN a ELSE b

Max(a, b) == IF a > b THEN a ELSE b

Clamp(n, len) == Max(0, Min(n, len))

\* Variant of Substring: the end index is taken as inclusive.
SubstringInclusiveEnd(s, start, end) ==
    LET a == Clamp(start, Len(s))
        b == Clamp(end + 1, Len(s))
    IN  SubSeq(s, Min(a, b) + 1, Max(a, b))

\* String.prototype.substring(start, end): both indices are clamped to
\* [0, length] and swapped when start > end; the result is s[start .. end).
Substring(s, start, end) ==
    LET a == Clamp(start, Len(s))
        b == Clamp(end, Len(s))
    IN  SubSeq(s, Min(a, b) + 1, Max(a, b))

\* Decimal digits of a natural number (Number-to-String for the integers
\* the handler prints).
RECURSIVE Digits(_)
Digits(n) ==
    IF n < 10 THEN <<48 + n>> ELSE Digits(n \div 10) \o <<48 + (n % 10)>>

\* The digits of n, zero-padded on the left to width w.
RECURSIVE Pad(_, _)
Pad(n, w) ==
    IF w <= 1 THEN Digits(n) ELSE
    IF Len(Digits(n)) >= w THEN Digits(n)
    ELSE <<48>> \o Pad(n, w - 1)

\* Template-literal / String() conversion of a value.
ToText(v) ==
    CASE v.tag = "string"  -> v.val
      [] v.tag = "number"  -> Digits(v.val)
      [] v.tag = "boolean" -> IF v.val THEN <<116, 114, 117, 101>>
                              ELSE <<102, 97, 108, 115, 101>>
      [] OTHER             -> UndefinedText

\* One lowercase hexadecimal digit.
HexDigit(n) == IF n < 10 THEN 48 + n ELSE 87 + n

\* The six units of \uXXXX for code unit c.
UnicodeEscape(c) ==
    <<92, 117, HexDigit(c \div 4096), HexDigit((c \div 256) % 16),
      HexDigit((c \div 16) % 16), HexDigit(c % 16)>>

IsHighSurrogate(c) == c >= 55296 /\ c <= 56319

IsLowSurrogate(c) == c >= 56320 /\ c <= 57343

\* JSON.stringify's QuoteJSONString on one code unit that is not part of a
\* surrogate pair: the quote, the backslash and the five short escapes,
\* \uXXXX for the other units below U+0020 and for a lone surrogate, the
\* rest copied.
JsonEscape(c) ==
    CASE c = 8  -> <<92, 98>>
      [] c = 9  -> <<92, 116>>
      [] c = 10 -> <<92, 110>>
      [] c = 12 -> <<92, 102>>
      [] c = 13 -> <<92, 114>>
      [] c = 34 -> <<92, 34>>
      [] c = 92 -> <<92, 92>>
      [] c < 32 -> UnicodeEscape(c)
      [] IsHighSurrogate(c) \/ IsLowSurrogate(c) -> UnicodeEscape(c)
      [] OTHER  -> <<c>>

\* A high surrogate followed by a low surrogate is one code point and is
\* copied; every other unit is escaped on its own.
RECURSIVE JsonEscapeAll(_)
JsonEscapeAll(s) ==
    IF s = <<>> THEN <<>>
    ELSE IF Len(s) >= 2 /\ IsHighSurrogate(s[1]) /\ IsLowSurrogate(s[2])
    THEN <<s[1], s[2]>> \o JsonEscapeAll(SubSeq(s, 3, Len(s)))
    ELSE JsonEscape(Head(s)) \o JsonEscapeAll(Tail(s))

\* JSON.stringify(v) inside a template literal: a string is quoted and
\* escaped, undefined yields undefined, which prints as "undefined".
JsonStringify(v) ==
    CASE v.tag = "string"    -> <<34>> \o JsonEscapeAll(v.val) \o <<34>>
      [] v.tag = "undefined" -> UndefinedText
      [] OTHER               -> ToText(v)

\* s ends with t.
EndsWith(s, t) ==
    /\ Len(t) <= Len(s)
    /\ SubSeq(s, Len(s) - Len(t) + 1, Len(s)) = t

\* t occurs in s (String.prototype.includes).
Includes(s, t) ==
    \E i \in 0..(Len(s) - Len(t)) : SubSeq(s, i + 1, i + Len(t)) = t

-----------------------------------------------------------------------------
(* Dates.  The clock and the report's timestamp are milliseconds since the *)
(* epoch, within the first day, which keeps the calendar date fixed; the   *)
(* time of day is computed.  Formatting follows the en-US locale in UTC;   *)
(* the separator before AM/PM is a space in older ICU data and U+202F in   *)
(* newer, and is an input (locale).                                        *)

HourOf(t) == (t \div 3600000) % 24

MinuteOf(t) == (t \div 60000) % 60

SecondOf(t) == (t \div 1000) % 60

MilliOf(t) == t % 1000

Hour12(h) == IF h % 12 = 0 THEN 12 ELSE h % 12

Meridiem(h) == IF h < 12 THEN <<65, 77>> ELSE <<80, 77>>

\* Date.prototype.toLocaleTimeString(), e.g. "12:34:56 PM".
toLocaleTimeString(t, sep) ==
    Digits(Hour12(HourOf(t))) \o <<58>> \o Pad(MinuteOf(t), 2) \o <<58>>
      \o Pad(SecondOf(t), 2) \o <<sep>> \o Meridiem(HourOf(t))

\* Date.prototype.toLocaleString(), e.g. "1/1/1970, 12:34:56 PM".
toLocaleString(t, sep) == DatePrefix \o toLocaleTimeString(t, sep)

\* Date.prototype.toISOString(), e.g. "1970-01-01T12:34:56.000Z".
toISOString(t) ==
    IsoDatePrefix \o Pad(HourOf(t), 2) \o <<58>> \o Pad(MinuteOf(t), 2) \o <<58>>
      \o Pad(SecondOf(t), 2) \o <<46>> \o Pad(MilliOf(t), 3) \o <<90>>

-----------------------------------------------------------------------------
(* The pure parts of run().                                                *)

\* The margin subtracted from max_message_length when truncating (line 60).
TruncateMargin == 100

\* Variant of Truncate: a report of exactly max_message_length characters
\* is truncated too (>= in place of >).
TruncateAtLimit(report, max_message_length) ==
    IF Len(report) >= max_message_length
    THEN Substring(report, 0, max_message_length - TruncateMargin) \o TruncationNotice
    ELSE report

\* Lines 58-61: the report, or its truncation with the notice.
Truncate(report, max_message_length) ==
    IF Len(report) > max_message_length
    THEN Substring(report, 0, max_message_length - TruncateMargin) \o TruncationNotice
    ELSE report

\* Line 67: the generation time, or the 'Unknown time' marker.
GeneratedText(timestamp, sep) ==
    IF Truthy(timestamp) THEN toLocaleString(timestamp.val, sep) ELSE UnknownTime

\* Line 68: the source, or the default label.
SourceText(source) ==
    IF Truthy(source) THEN ToText(source) ELSE DefaultSource

\* Lines 65-69: the footer appended to the message.
Footer(timestamp, source, elapsed, sep) ==
    FooterGenerated \o GeneratedText(timestamp, sep)
      \o FooterSource \o SourceText(source)
      \o FooterProcessing \o Digits(elapsed) \o MsSuffix

\* Lines 64-69: the text of the primary post.
FormatMessage(report, timestamp, source, elapsed, max_message_length, sep) ==
    Truncate(report, max_message_length) \o Footer(timestamp, source, elapsed, sep)

\* Line 93: the message of the error thrown on a provider-reported failure.
SlackErrorMessage(resp) == SlackErrorPrefix \o JsonStringify(resp.error)

\* Line 121: the text of the error notice.
ErrorNotice(message, t, sep) ==
    NoticeHead \o message \o NoticeTime \o toLocaleTimeString(t, sep)

-----------------------------------------------------------------------------
(* Inputs.                                                                 *)

\* How far past max_message_length the reports of the model reach.
MaxOver == 2

\* The largest number of milliseconds the clock advances in one step.
MaxElapsed == 1

\* Values of the slack_channel prop.
Channels == {GeneralChannel, IntelChannel}

\* Values of the max_message_length prop: one below the truncation margin,
\* the margin itself, and one above it.
MaxLengths == {40, TruncateMargin, TruncateMargin + 3}

\* A report of n characters, "ABC...ZABC...".
ReportOf(n) == [i \in 1..n |-> 65 + ((i - 1) % 26)]

\* Report lengths: empty, short, and around each max_message_length.
ReportLengths ==
    {0, 1} \cup {m + d : m \in MaxLengths, d \in (-1)..MaxOver}

Reports == {Undefined} \cup {Str(ReportOf(n)) : n \in ReportLengths}

\* Timestamps: absent, 0 (falsy) and 12:34:56 PM of the first day.
Timestamps == {Undefined, Num(0), Num(45296000)}

Sources == {Undefined, Str(<<>>), Str(ScannerSource)}

\* steps.trigger.event.body: absent, or an object with the three fields.
Bodies ==
    {Undefined} \cup
    [tag : {"object"}, report : Reports, timestamp : Timestamps, source : Sources]

\* Clock readings at the start of run(): the last millisecond before noon,
\* so that a step of the clock changes every field of the time of day.
Clocks == {43199999}

\* Separators before AM/PM: space and U+202F.
Separators == {32, 8239}

\* A provider error text with a tab, a quote and a lone surrogate: a<TAB>"<U+D83D>
EscapedError == <<97, 9, 34, 55357>>

\* Bodies of the provider's answer to chat.postMessage.
SlackResponses ==
    { Undefined,
      [tag |-> "object", ok |-> Bool(TRUE), error |-> Undefined, ts |-> Str(ProviderTs)],
      [tag |-> "object", ok |-> Bool(FALSE), error |-> Str(InvalidAuth), ts |-> Undefined],
      [tag |-> "object", ok |-> Bool(FALSE), error |-> Str(EscapedError), ts |-> Undefined],
      [tag |-> "object", ok |-> Undefined, error |-> Undefined, ts |-> Undefined] }

\* What awaiting $.send.http can do: reject with an error, or resolve.
HttpOutcomes ==
    {[kind |-> "throw", message |-> NetworkMessage]} \cup
    {[kind |-> "return", value |-> r] : r \in SlackResponses}

NoResponse == [tag |-> "none"]

NoResult == [tag |-> "none"]

NoError == [tag |-> "none"]

\* new Error(message) / a caught error with its message.
Error(message) == [tag |-> "error", message |-> message]

-----------------------------------------------------------------------------
(* The state machine of one invocation of run().                           *)

Init ==
    /\ pc = "Idle"
    /\ props \in [slack_channel : Channels, max_message_length : MaxLengths]
    /\ locale \in Separators
    /\ now \in Clocks
    /\ requestBody = Undefined
    /\ startTime = 0
    /\ slackMessage = <<>>
    /\ formattedMessage = <<>>
    /\ calls = <<>>
    /\ slackResponse = Undefined
    /\ error = NoError
    /\ slackError = NoError
    /\ response = NoResponse
    /\ result = NoResult

\* Lines 37-38: the HTTP trigger invokes run() with a body; startTime is read.
Trigger(body) ==
    /\ pc = "Idle"
    /\ pc' = "Received"
    /\ requestBody' = body
    /\ startTime' = now
    /\ UNCHANGED <<props, locale, now, slackMessage, formattedMessage, calls,
                   slackResponse, error, slackError, response, result>>

\* Variant of Validate: an absent body is treated as a missing report
\* (const { report, timestamp, source } = requestBody || {}).
ValidateGuardsBody ==
    /\ pc = "Received"
    /\ IF requestBody.tag # "object" \/ ~Truthy(requestBody.report)
       THEN /\ response' = [status |-> 400, body |-> [error |-> NoReportError]]
            /\ pc' = "Responded"
       ELSE /\ pc' = "Validated"
            /\ UNCHANGED response
    /\ UNCHANGED <<props, locale, requestBody, now, startTime, slackMessage,
                   formattedMessage, calls, slackResponse, error, slackError, result>>

\* Lines 44-53: destructure the body and validate the report.  Destructuring
\* an absent body throws inside the try block; a falsy report answers 400.
Validate ==
    /\ pc = "Received"
    /\ IF requestBody.tag # "object"
       THEN /\ error' = Error(DestructureMessage)
            /\ pc' = "Failed"
            /\ UNCHANGED response
       ELSE IF ~Truthy(requestBody.report)
       THEN /\ response' = [status |-> 400, body |-> [error |-> NoReportError]]
            /\ pc' = "Responded"
            /\ UNCHANGED error
       ELSE /\ pc' = "Validated"
            /\ UNCHANGED <<error, response>>
    /\ UNCHANGED <<props, locale, requestBody, now, startTime, slackMessage,
                   formattedMessage, calls, slackResponse, slackError, result>>

\* Lines 57-69: truncate the report and append the footer; d milliseconds
\* have passed since startTime was read.
Format(d) ==
    /\ pc = "Validated"
    /\ now' = now + d
    /\ slackMessage' = Truncate(requestBody.report.val, props.max_message_length)
    /\ formattedMessage' =
          FormatMessage(requestBody.report.val, requestBody.timestamp,
                        requestBody.source, now' - startTime,
                        props.max_message_length, locale)
    /\ pc' = "Formatted"
    /\ UNCHANGED <<props, locale, requestBody, startTime, calls, slackResponse,
                   error, slackError, response, result>>

\* Lines 81-88: the data of the primary post.
MessagePost ==
    [ channel      |-> props.slack_channel,
      text         |-> formattedMessage,
      username     |-> "Competitive Intel Bot",
      icon_emoji   |-> ":dart:",
      unfurl_links |-> FALSE,
      unfurl_media |-> FALSE ]

\* Lines 74-89: issue the primary post; run() is then suspended at the
\* await of line 74.
Send ==
    /\ pc = "Formatted"
    /\ calls' = Append(calls, MessagePost)
    /\ pc' = "AwaitingPost"
    /\ UNCHANGED <<props, locale, requestBody, now, startTime, slackMessage,
                   formattedMessage, slackResponse, error, slackError, response,
                   result>>

\* Line 74 resumes, d milliseconds later: the post resolved and its answer
\* is bound to slackResponse, or it rejected and the outer catch (line 107)
\* has the error.
Receive(outcome, d) ==
    /\ pc = "AwaitingPost"
    /\ now' = now + d
    /\ IF outcome.kind = "throw"
       THEN /\ error' = Error(outcome.message)
            /\ pc' = "Failed"
            /\ UNCHANGED slackResponse
       ELSE /\ slackResponse' = outcome.value
            /\ pc' = "Delivered"
            /\ UNCHANGED error
    /\ UNCHANGED <<props, locale, requestBody, startTime, slackMessage,
                   formattedMessage, calls, slackError, response, result>>

\* Variant of SuccessResult: message_length is taken before the footer is
\* appended.
SuccessResultWithoutFooter ==
    [ success            |-> TRUE,
      timestamp          |-> toISOString(now),
      slack_channel      |-> props.slack_channel,
      message_length     |-> Len(slackMessage),
      processing_time_ms |-> now - startTime,
      slack_message_ts   |-> slackResponse.ts ]

\* Lines 98-105: the value run() returns on success.
SuccessResult ==
    [ success            |-> TRUE,
      timestamp          |-> toISOString(now),
      slack_channel      |-> props.slack_channel,
      message_length     |-> Len(formattedMessage),
      processing_time_ms |-> now - startTime,
      slack_message_ts   |-> slackResponse.ts ]

\* Variant of Inspect: the success indicator of the answer is not looked
\* at, so every answer counts as delivered.
InspectIgnoresOk ==
    /\ pc = "Delivered"
    /\ result' = [ success            |-> TRUE,
                   timestamp          |-> toISOString(now),
                   slack_channel      |-> props.slack_channel,
                   message_length     |-> Len(formattedMessage),
                   processing_time_ms |-> now - startTime,
                   slack_message_ts   |-> IF slackResponse.tag = "object"
                                          THEN slackResponse.ts ELSE Undefined ]
    /\ pc' = "Responded"
    /\ UNCHANGED <<props, locale, requestBody, now, startTime, slackMessage,
                   formattedMessage, calls, slackResponse, error, slackError, response>>

\* Lines 91-105: inspect the provider's answer.  Reading .ok of an absent
\* answer throws; a falsy .ok throws the Slack error; otherwise run()
\* returns the result.
Inspect ==
    /\ pc = "Delivered"
    /\ IF slackResponse.tag # "object"
       THEN /\ error' = Error(ReadOkMessage)
            /\ pc' = "Failed"
            /\ UNCHANGED result
       ELSE IF ~Truthy(slackResponse.ok)
       THEN /\ error' = Error(SlackErrorMessage(slackResponse))
            /\ pc' = "Failed"
            /\ UNCHANGED result
       ELSE /\ result' = SuccessResult
            /\ pc' = "Responded"
            /\ UNCHANGED error
    /\ UNCHANGED <<props, locale, requestBody, now, startTime, slackMessage,
                   formattedMessage, calls, slackResponse, slackError, response>>

\* Variant of ErrorPost: the notice goes to the default channel instead of
\* the configured one.
ErrorPostToDefaultChannel ==
    [ channel    |-> GeneralChannel,
      text       |-> ErrorNotice(error.message, now, locale),
      username   |-> "Competitive Intel Bot",
      icon_emoji |-> ":warning:" ]

\* Lines 119-124: the data of the error notice.
ErrorPost ==
    [ channel    |-> props.slack_channel,
      text       |-> ErrorNotice(error.message, now, locale),
      username   |-> "Competitive Intel Bot",
      icon_emoji |-> ":warning:" ]

\* Lines 110-125: issue the error notice; run() is then suspended at the
\* await of line 112.
Notify ==
    /\ pc = "Failed"
    /\ calls' = Append(calls, ErrorPost)
    /\ pc' = "AwaitingNotice"
    /\ UNCHANGED <<props, locale, requestBody, now, startTime, slackMessage,
                   formattedMessage, slackResponse, error, slackError, response,
                   result>>

\* Variant of NotifySettled: there is no inner catch, so a rejection of the
\* notice replaces the original error.
NotifySettledWithoutInnerCatch(outcome, d) ==
    /\ pc = "AwaitingNotice"
    /\ now' = now + d
    /\ error' = IF outcome.kind = "throw" THEN Error(outcome.message) ELSE error
    /\ slackError' = NoError
    /\ pc' = "Notified"
    /\ UNCHANGED <<props, locale, requestBody, startTime, slackMessage,
                   formattedMessage, calls, slackResponse, response, result>>

\* Line 112 resumes, d milliseconds later.  The answer is not inspected; a
\* rejection is caught by the inner catch (lines 126-128) and only logged.
NotifySettled(outcome, d) ==
    /\ pc = "AwaitingNotice"
    /\ now' = now + d
    /\ slackError' = IF outcome.kind = "throw" THEN Error(outcome.message) ELSE NoError
    /\ pc' = "Notified"
    /\ UNCHANGED <<props, locale, requestBody, startTime, slackMessage,
                   formattedMessage, calls, slackResponse, error, response, result>>

\* Lines 130-137: answer 500 with the message of the original error.
RespondError ==
    /\ pc = "Notified"
    /\ response' = [status |-> 500,
                    body |-> [success   |-> FALSE,
                              error     |-> error.message,
                              timestamp |-> toISOString(now)]]
    /\ pc' = "Responded"
    /\ UNCHANGED <<props, locale, requestBody, now, startTime, slackMessage,
                   formattedMessage, calls, slackResponse, error, slackError, result>>

Next ==
    \/ \E body \in Bodies : Trigger(body)
    \/ Validate
    \/ \E d \in 0..MaxElapsed : Format(d)
    \/ Send
    \/ \E outcome \in HttpOutcomes, d \in 0..MaxElapsed : Receive(outcome, d)
    \/ Inspect
    \/ Notify
    \/ \E outcome \in HttpOutcomes, d \in 0..MaxElapsed : NotifySettled(outcome, d)
    \/ RespondError

Spec == Init /\ [][Next]_vars

-----------------------------------------------------------------------------
(* Vocabulary of the properties, stated on the inputs and the outbound     *)
(* calls rather than on the handler's intermediate values.                 *)

\* The body is present and its report is missing or empty.
ReportMissing ==
    /\ requestBody.tag = "object"
    /\ requestBody.report \in {Undefined, Str(<<>>)}

\* The body is present and its report is a non-empty text.
ReportGiven ==
    /\ requestBody.tag = "object"
    /\ requestBody.report \notin {Undefined, Str(<<>>)}

IsMessagePost(call) == call.icon_emoji = ":dart:"

IsErrorPost(call) == call.icon_emoji = ":warning:"

MessagePosts == {i \in 1..Len(calls) : IsMessagePost(calls[i])}

ErrorPosts == {i \in 1..Len(calls) : IsErrorPost(calls[i])}

\* The primary post has been issued.
MessagePosted == calls # <<>> /\ IsMessagePost(calls[1])

\* The primary post has been issued and its outcome is known.
MessageSettled == MessagePosted /\ pc # "AwaitingPost"

\* The provider answered the primary post with a falsy success indicator.
ProviderFailure ==
    /\ MessageSettled
    /\ slackResponse.tag = "object"
    /\ slackResponse.ok \in {Undefined, Bool(FALSE)}

\* The provider answered the primary post with a truthy success indicator.
ProviderSuccess ==
    /\ MessageSettled
    /\ slackResponse.tag = "object"
    /\ slackResponse.ok = Bool(TRUE)

\* The generation time the footer is to show.
ExpectedTime ==
    IF requestBody.timestamp \in {Undefined, Num(0)} THEN UnknownTime
    ELSE toLocaleString(requestBody.timestamp.val, locale)

\* The source the footer is to show.
ExpectedSource ==
    IF requestBody.source \in {Undefined, Str(<<>>)} THEN DefaultSource
    ELSE requestBody.source.val

\* The footer with e milliseconds of processing time.
ExpectedFooter(e) ==
    FooterGenerated \o ExpectedTime \o FooterSource \o ExpectedSource
      \o FooterProcessing \o Digits(e) \o MsSuffix

\* "Slack error"
SlackErrorWords == SubSeq(SlackErrorPrefix, 1, 11)

ErrorResponse(message, stamp) ==
    [status |-> 500, body |-> [success |-> FALSE, error |-> message, timestamp |-> stamp]]

-----------------------------------------------------------------------------
(* Properties.                                                             *)

\* C1: a payload whose report is missing or empty is answered 400 with the
\* body {error: "No report data provided"}, and no outbound call is made,
\* neither the message post nor the error notice.
C1_MissingReportIs400 ==
    ReportMissing =>
        /\ calls = <<>>
        /\ pc \in {"Received", "Responded"}
        /\ result = NoResult
        /\ pc = "Responded" =>
              response = [status |-> 400, body |-> [error |-> NoReportError]]

C1_Witness ==
    /\ pc = "Responded"
    /\ requestBody.tag = "object"
    /\ requestBody.report = Str(<<>>)
    /\ response # NoResponse
    /\ response.status = 400

\* C2: when the primary post throws or is answered with a falsy success
\* indicator, the caller gets status 500 with success=false, the error
\* contains "Slack error" in the provider-reported case, and the error
\* notice is attempted exactly once.
C2_DeliveryFailureIs500 ==
    (pc = "Responded" /\ MessageSettled /\ ~ProviderSuccess) =>
        /\ response # NoResponse
        /\ response.status = 500
        /\ response.body.success = FALSE
        /\ result = NoResult
        /\ Cardinality(ErrorPosts) = 1
        /\ ProviderFailure => Includes(response.body.error, SlackErrorWords)

C2_Witness ==
    /\ pc = "Responded"
    /\ ProviderFailure
    /\ slackResponse.error = Str(InvalidAuth)
    /\ response # NoResponse
    /\ response.status = 500
    /\ Cardinality(ErrorPosts) = 1

\* C3: for a report longer than max_message_length, the text of the
\* primary post is at most max_message_length long and ends with the
\* truncation notice.
C3_TruncatedTextWithinLimit ==
    (ReportGiven /\ MessagePosted
       /\ Len(requestBody.report.val) > props.max_message_length) =>
        /\ Len(calls[1].text) <= props.max_message_length
        /\ EndsWith(calls[1].text, TruncationNotice)

\* C4: for a non-empty report of length at most max_message_length
\* (equality included), the text of the primary post is the report,
\* unmodified, followed by the footer and nothing else.
C4_ShortReportUnmodified ==
    (ReportGiven /\ MessagePosted
       /\ Len(requestBody.report.val) <= props.max_message_length) =>
        \E e \in 0..(now - startTime) :
            calls[1].text = requestBody.report.val \o ExpectedFooter(e)

C4_Witness ==
    /\ ReportGiven
    /\ MessagePosted
    /\ Len(requestBody.report.val) = props.max_message_length
    /\ requestBody.timestamp = Num(45296000)
    /\ requestBody.source = Undefined

\* C5: a failure of the error notice never changes the answer to the
\* caller: whatever the outcome of the notice, the handler keeps the
\* original error, answers 500 with success=false and that error's message,
\* returns no result and makes no further call.
C5_NoticeFailureSwallowed ==
    [][ /\ pc = "Failed" =>
              /\ pc' = "AwaitingNotice"
              /\ error' = error
              /\ response' = NoResponse
              /\ result' = NoResult
        /\ pc = "AwaitingNotice" =>
              /\ pc' = "Notified"
              /\ calls' = calls
              /\ error' = error
              /\ response' = NoResponse
              /\ result' = NoResult
        /\ pc = "Notified" =>
              /\ pc' = "Responded"
              /\ calls' = calls
              /\ result' = NoResult
              /\ response' = ErrorResponse(error.message, response'.body.timestamp)
      ]_vars

C5_Witness ==
    /\ pc = "Responded"
    /\ slackError # NoError
    /\ response # NoResponse
    /\ response.status = 500
    /\ Len(calls) = 2

\* C6: when the provider answers the primary post with a truthy success
\* indicator, run returns success=true, the configured channel, the length
\* of the text that was sent and the provider's message identifier; no
\* 400/500 response is emitted and no error notice is posted.
C6_SuccessResult ==
    (pc = "Responded" /\ ProviderSuccess) =>
        /\ result # NoResult
        /\ result.success = TRUE
        /\ result.slack_channel = props.slack_channel
        /\ result.message_length = Len(calls[1].text)
        /\ result.slack_message_ts = slackResponse.ts
        /\ response = NoResponse
        /\ Len(calls) = 1

C6_Witness ==
    /\ pc = "Responded"
    /\ ProviderSuccess
    /\ result # NoResult
    /\ Len(requestBody.report.val) > props.max_message_length

\* C7: for a report longer than max_message_length, the text of the
\* primary post is the first (max_message_length - 100) characters of the
\* report, then the truncation notice, then the footer.
C7_TruncatedTextShape ==
    (ReportGiven /\ MessagePosted
       /\ Len(requestBody.report.val) > props.max_message_length) =>
        \E e \in 0..(now - startTime) :
            calls[1].text =
                SubSeq(requestBody.report.val, 1, props.max_message_length - 100)
                  \o TruncationNotice \o ExpectedFooter(e)

C7_Witness ==
    /\ pc = "Responded"
    /\ ProviderSuccess
    /\ result # NoResult
    /\ result.success = TRUE
    /\ props.max_message_length > 100
    /\ Len(requestBody.report.val) > props.max_message_length

\* C8: a request moves through Received, Validated, Formatted, Delivered,
\* Responded in that order; Failed is entered only from Validated,
\* Formatted (the post being formatted or in flight) or Delivered; a
\* request in Failed attempts the error notice and then answers 500.
C8_StateMachine ==
    [][ /\ pc = "Received" => pc' \in {"Validated", "Responded"}
        /\ pc = "Validated" => pc' \in {"Formatted", "Failed"}
        /\ pc = "Formatted" => pc' \in {"AwaitingPost", "Failed"}
        /\ pc = "AwaitingPost" => pc' \in {"Delivered", "Failed"}
        /\ pc = "Delivered" => pc' \in {"Responded", "Failed"}
        /\ pc' = "Failed" =>
              pc \in {"Validated", "Formatted", "AwaitingPost", "Delivered"}
        /\ pc = "Failed" =>
              /\ pc' = "AwaitingNotice"
              /\ Len(calls') = Len(calls) + 1
              /\ IsErrorPost(calls'[Len(calls')])
        /\ pc = "AwaitingNotice" => pc' = "Notified"
        /\ pc = "Notified" =>
              /\ pc' = "Responded"
              /\ response'.status = 500
      ]_vars

\* C9: nothing is retried: the message post is issued at most once and the
\* error notice at most once, the error notice only after an error of the
\* primary path, and both go to the configured channel.
C9_NoRetries ==
    /\ Cardinality(MessagePosts) <= 1
    /\ Cardinality(ErrorPosts) <= 1
    /\ Len(calls) <= 2
    /\ \A i \in 1..Len(calls) :
          /\ calls[i].channel = props.slack_channel
          /\ IsErrorPost(calls[i]) =>
                /\ i = Len(calls)
                /\ error # NoError
                /\ pc \in {"AwaitingNotice", "Notified", "Responded"}
                /\ (ReportMissing \/ ProviderSuccess) = FALSE

C9_Witness ==
    /\ pc = "Responded"
    /\ Len(calls) = 2
    /\ IsMessagePost(calls[1])
    /\ IsErrorPost(calls[2])
    /\ props.slack_channel = IntelChannel

\* C10: when the request body is absent, the 400 path is not taken: reading
\* its fields throws inside the try block, one error notice is posted to
\* the channel, and the answer is 500 with success=false.
C10_AbsentBodyIs500 ==
    (pc \notin {"Idle", "Received"} /\ requestBody = Undefined) =>
        /\ pc \in {"Failed", "AwaitingNotice", "Notified", "Responded"}
        /\ MessagePosts = {}
        /\ result = NoResult
        /\ pc = "Responded" =>
              /\ response.status = 500
              /\ response.body.success = FALSE
              /\ Len(calls) = 1
              /\ IsErrorPost(calls[1])
              /\ calls[1].channel = props.slack_channel

C10_Witness ==
    /\ pc = "Responded"
    /\ requestBody = Undefined
    /\ response # NoResponse
    /\ response.status = 500
    /\ Len(calls) = 1

====
